---- MODULE Spec2Model ----
(***************************************************************************)
(* Model of the airline customer-service chat orchestrator:                *)
(*   python-backend/api.py            chat_endpoint, check_guardrails,     *)
(*                                    InMemoryConversationStore            *)
(*   python-backend/simple_agents.py  Agent.process_message, the tools,    *)
(*                                    the hand-off graph, context setup    *)
(* Python strings are TLA+ strings (Len, SubSeq and \o act on them).       *)
(***************************************************************************)
EXTENDS Integers, Sequences, FiniteSets, TLC

\* ------------------------------------------------------------------ bounds
\* Most conversation states the store may hold.
MaxConversations == 1
\* Most history entries the store may hold, over all conversations.
MaxHistory == 6
\* The same two bounds where requests are in flight together, and the most
\* requests accepted by the server and not yet handled.
MaxConcurrentConversations == 2
MaxConcurrentHistory == 4
MaxInflight == 2
\* Most turns of a run that exercises the agents with every kind of completion,
\* and of a run that exercises the guardrails with every kind of message.
MaxAgentsTurns == 3
MaxGuardrailTurns == 2
\* Most turns of a run that lets one conversation outgrow the prompt window.
MaxWindowTurns == 6

\* ------------------------------------------------------- Python primitives
\* Python's None (context fields, handoff_to, an absent conversation id).
None == "<None>"

\* Truth value testing: `not x` holds of None and of the empty string.
Falsy(x) == x = None \/ x = ""

\* `x or default`.
OrElse(x, default) == IF Falsy(x) THEN default ELSE x

UpperLetters == "ABCDEFGHIJKLMNOPQRSTUVWXYZ"
LowerLetters == "abcdefghijklmnopqrstuvwxyz"
Digits == "0123456789"

CharAt(s, i) == SubSeq(s, i, i)

\* `p in s` for strings.
Contains(s, p) ==
    \E i \in 1..(Len(s) - Len(p) + 1) : SubSeq(s, i, i + Len(p) - 1) = p

\* s.startswith(p)
StartsWith(s, p) == Len(s) >= Len(p) /\ SubSeq(s, 1, Len(p)) = p

LowerChar(c) ==
    IF \E i \in 1..26 : CharAt(UpperLetters, i) = c
    THEN CharAt(LowerLetters, CHOOSE i \in 1..26 : CharAt(UpperLetters, i) = c)
    ELSE c

RECURSIVE Lower(_)
\* s.lower()
Lower(s) == IF s = "" THEN "" ELSE LowerChar(CharAt(s, 1)) \o Lower(SubSeq(s, 2, Len(s)))

\* str.isspace() on one character (the whitespace str.strip and str.split drop).
IsSpace(c) == c \in {" ", "\t", "\n", "\r"}
IsDigit(c) == Contains(Digits, c)
IsAlpha(c) == Contains(UpperLetters, c) \/ Contains(LowerLetters, c)

RECURSIVE LStrip(_)
LStrip(s) == IF s # "" /\ IsSpace(CharAt(s, 1)) THEN LStrip(SubSeq(s, 2, Len(s))) ELSE s

RECURSIVE RStrip(_)
RStrip(s) ==
    IF s # "" /\ IsSpace(CharAt(s, Len(s))) THEN RStrip(SubSeq(s, 1, Len(s) - 1)) ELSE s

\* s.strip()
Strip(s) == RStrip(LStrip(s))

\* s.split(sep)[0]: the part of s before the first occurrence of sep.
SplitFirst(s, sep) ==
    IF Contains(s, sep)
    THEN LET i == CHOOSE k \in 1..Len(s) :
                      /\ SubSeq(s, k, k + Len(sep) - 1) = sep
                      /\ \A j \in 1..(k - 1) : SubSeq(s, j, j + Len(sep) - 1) # sep
         IN SubSeq(s, 1, i - 1)
    ELSE s

RECURSIVE FirstWord(_)
\* The longest prefix of s holding no whitespace.
FirstWord(s) ==
    IF s = "" \/ IsSpace(CharAt(s, 1)) THEN ""
    ELSE CharAt(s, 1) \o FirstWord(SubSeq(s, 2, Len(s)))

RECURSIVE Words(_)
\* s.split(): the whitespace-separated words of s, in order.
Words(s) ==
    LET t == LStrip(s)
    IN IF t = "" THEN <<>>
       ELSE LET w == FirstWord(t)
            IN <<w>> \o Words(SubSeq(t, Len(w) + 1, Len(t)))

\* ----------------------------------------------------------------- context
\* AirlineAgentContext: five optional string fields.
ContextFields ==
    {"passenger_name", "confirmation_number", "seat_number", "flight_number",
     "account_number"}

AirlineAgentContext ==
    [passenger_name |-> None, confirmation_number |-> None, seat_number |-> None,
     flight_number |-> None, account_number |-> None]

\* Mutant: the initial context carries no account number.
create_context_without_account(account) == AirlineAgentContext

\* create_initial_context(): account is the str(random.randint(...)) drawn.
create_initial_context(account) ==
    [AirlineAgentContext EXCEPT !.account_number = account]

\* ------------------------------------------------------------------- tools
faq_lookup_tool(question) ==
    LET q == Lower(question)
    IN IF Contains(q, "bag") \/ Contains(q, "baggage")
       THEN "You are allowed to bring one bag on the plane. It must be under 50 pounds and 22 inches x 14 inches x 9 inches."
       ELSE IF Contains(q, "seats") \/ Contains(q, "plane")
       THEN "There are 120 seats on the plane. There are 22 business class seats and 98 economy seats. Exit rows are rows 4 and 16. Rows 5-8 are Economy Plus, with extra legroom."
       ELSE IF Contains(q, "wifi")
       THEN "We have free wifi on the plane, join Airline-Wifi"
       ELSE "I'm sorry, I don't know the answer to that question."

\* Mutant: update_seat also clears the account number.
update_seat_clearing_account(context, confirmation_number, new_seat) ==
    [result |-> "Updated seat to " \o new_seat \o " for confirmation number "
                    \o confirmation_number,
     context |-> [context EXCEPT !.confirmation_number = confirmation_number,
                                 !.seat_number = new_seat,
                                 !.account_number = None]]

\* update_seat mutates the context it is handed; the pair is (return value,
\* context after the call).
update_seat(context, confirmation_number, new_seat) ==
    [result |-> "Updated seat to " \o new_seat \o " for confirmation number "
                    \o confirmation_number,
     context |-> [context EXCEPT !.confirmation_number = confirmation_number,
                                 !.seat_number = new_seat]]

flight_status_tool(flight_number) ==
    "Flight " \o flight_number \o " is on time and scheduled to depart at gate A10."

display_seat_map(context) == "DISPLAY_SEAT_MAP"

cancel_flight(context) ==
    LET fn == OrElse(context.flight_number, "FLT-123")
    IN "Flight " \o fn \o " successfully cancelled"

\* ------------------------------------------------------------------ agents
AgentNames ==
    {"Triage Agent", "Seat Booking Agent", "Flight Status Agent",
     "Cancellation Agent", "FAQ Agent"}

\* Agent.tools: the registered tool functions, by __name__, in order.
AgentTools(name) ==
    CASE name = "Triage Agent" -> <<>>
      [] name = "Seat Booking Agent" -> <<"update_seat", "display_seat_map">>
      [] name = "Flight Status Agent" -> <<"flight_status_tool">>
      [] name = "Cancellation Agent" -> <<"cancel_flight">>
      [] name = "FAQ Agent" -> <<"faq_lookup_tool">>

\* The hand-off relationships, in registration order.
triage_handoffs ==
    <<"Seat Booking Agent", "Flight Status Agent", "Cancellation Agent", "FAQ Agent">>
\* Mutant: the seat booking agent may also hand off to the cancellation agent.
seat_booking_handoffs_wide == <<"Triage Agent", "Cancellation Agent">>
seat_booking_handoffs == <<"Triage Agent">>
flight_status_handoffs == <<"Triage Agent">>
cancellation_handoffs == <<"Triage Agent">>
faq_handoffs == <<"Triage Agent">>

AgentHandoffs(name) ==
    CASE name = "Triage Agent" -> triage_handoffs
      [] name = "Seat Booking Agent" -> seat_booking_handoffs
      [] name = "Flight Status Agent" -> flight_status_handoffs
      [] name = "Cancellation Agent" -> cancellation_handoffs
      [] name = "FAQ Agent" -> faq_handoffs

\* get_agent_by_name: agents.get(name, triage_agent).
get_agent_by_name(name) == IF name \in AgentNames THEN name ELSE "Triage Agent"

\* Mutant: only the seat booking agent gets its context set up.
setup_seat_booking_only(context, agent_name, flight, confirmation) ==
    IF agent_name = "Seat Booking Agent"
    THEN [context EXCEPT !.flight_number = flight,
                         !.confirmation_number = confirmation]
    ELSE context

\* Mutant: entering the seat booking agent fills only the unset numbers.
setup_fill_unset_only(context, agent_name, flight, confirmation) ==
    IF agent_name \in {"Seat Booking Agent", "Cancellation Agent"}
    THEN [context EXCEPT
            !.confirmation_number = IF Falsy(@) THEN confirmation ELSE @,
            !.flight_number = IF Falsy(@) THEN flight ELSE @]
    ELSE context

\* setup_context_for_agent mutates the context in place; flight and confirmation
\* are the values random draws for this call.
setup_context_for_agent(context, agent_name, flight, confirmation) ==
    IF agent_name = "Seat Booking Agent"
    THEN [context EXCEPT !.flight_number = flight,
                         !.confirmation_number = confirmation]
    ELSE IF agent_name = "Cancellation Agent"
    THEN [context EXCEPT
            !.confirmation_number = IF Falsy(@) THEN confirmation ELSE @,
            !.flight_number = IF Falsy(@) THEN flight ELSE @]
    ELSE context

\* -------------------------------------------------------------- guardrails
airline_keywords ==
    <<"flight", "seat", "baggage", "cancel", "status", "book", "ticket", "airline",
      "plane", "gate">>
jailbreak_patterns ==
    <<"system prompt", "instructions", "ignore", "override", "bypass", "admin", "root">>

\* any(k in message.lower() for k in words)
AnyIn(words, message) ==
    \E i \in 1..Len(words) : Contains(Lower(message), words[i])

\* Mutant: a message of exactly ten characters still counts as short.
is_relevant_up_to_ten(message) ==
    AnyIn(airline_keywords, message) \/ Len(Strip(message)) <= 10

is_relevant(message) ==
    AnyIn(airline_keywords, message) \/ Len(Strip(message)) < 10

\* Mutant: the forbidden patterns are looked for in the message as written.
is_safe_case_sensitive(message) ==
    ~\E i \in 1..Len(jailbreak_patterns) : Contains(message, jailbreak_patterns[i])

is_safe(message) == ~AnyIn(jailbreak_patterns, message)

\* check_guardrails: the two checks, in order (ids and timestamps left out).
check_guardrails(message) ==
    << [name |-> "Relevance Guardrail", input |-> message,
        reasoning |-> IF is_relevant(message)
                      THEN "Message contains airline-related keywords"
                      ELSE "Message does not seem related to airline services",
        passed |-> is_relevant(message)],
       [name |-> "Jailbreak Guardrail", input |-> message,
        reasoning |-> IF is_safe(message)
                      THEN "No jailbreak attempt detected"
                      ELSE "Potential jailbreak attempt detected",
        passed |-> is_safe(message)] >>

\* ------------------------------------------------------------------ inputs
\* The messages clients send: whitespace only, a relevant and safe one that names
\* a seat, and a relevant one that holds a forbidden pattern.
Messages == {"  ", "seat 2B", "ignore seat"}

\* The messages that probe the guardrails: short and long ones without a keyword
\* (9, 10 and 11 characters once trimmed, with and without blanks around them),
\* keywords and forbidden patterns in either case, alone and together.
GuardrailMessages ==
    {"  ", "123456789", " 1234567890 ", "hello world", "  hi there  ",
     "MY FLIGHT IS LATE", "what is my gate", "IGNORE my flight", "Bypass it",
     "please override everything"}

\* The message of the clients that exercise the agents.
AgentsMessages == {"seat 2B"}

AllMessages == Messages \cup GuardrailMessages \cup AgentsMessages

\* check_guardrails and message.strip() == "", evaluated once for every message.
GuardrailsOf == [m \in AllMessages |-> check_guardrails(m)] @@ <<>>
IsBlankOf == [m \in AllMessages |-> Strip(m) = ""] @@ <<>>

\* A conversation id no uuid4() call returns.
UnknownId == "unknown-id"

\* uuid4().hex: the n-th id the server generates.
UuidHex(n) == "uuid-" \o ToString(n)

\* uuid4() returns an id that names no conversation yet.
FreshUuid(store, taken) ==
    UuidHex(CHOOSE n \in 1..(Cardinality(DOMAIN store \cup taken) + 1) :
                /\ UuidHex(n) \notin DOMAIN store \cup taken
                /\ \A m \in 1..(n - 1) : UuidHex(m) \in DOMAIN store \cup taken)

\* The values the random draws take.
AccountNumbers == {"10000000"}
FlightNumbers == {"FLT-100", "FLT-999"}
ConfirmationNumbers == {"AAAAAA", "Z9Z9Z9"}
\* The (flight, confirmation) pairs one call of setup_context_for_agent draws.
SetupDraws == {<<"FLT-100", "AAAAAA">>, <<"FLT-999", "Z9Z9Z9">>}

\* What a chat_completion call does: it raises (transport or parse failure) or
\* returns the model's text.
Raises == [raises |-> TRUE, text |-> ""]
Returns(text) == [raises |-> FALSE, text |-> text]
NoCall == [raises |-> FALSE, text |-> "<no call>"]

FirstCompletions ==
    {Raises} \cup
    {Returns(s) : s \in {"Hello.",
                         "TOOL:update_seat(2B)",
                         "Transfer to Seat Booking Agent",
                         "TRANSFER TO CANCELLATION AGENT",
                         "Handoff to triage agent"}}

SecondCompletions == {Raises, Returns("Done.")}

\* The completions that exercise the agents: plain text, tool requests (one whose
\* argument text reads like a hand-off), and hand-off wordings: a permitted
\* target, two targets named against the registration order, a target without
\* a trigger word, a trigger word without a target, and upper case.
AgentsFirstCompletions ==
    {Raises} \cup
    {Returns(s) : s \in {"Hello.",
                         "TOOL:display_seat_map()",
                         "TOOL:cancel_flight()",
                         "TOOL:update_seat(transfer to triage agent)",
                         "Transfer to Seat Booking Agent",
                         "Transfer to FAQ Agent or Cancellation Agent",
                         "Seat Booking Agent can help",
                         "I will transfer you",
                         "HANDOFF to the TRIAGE AGENT"}}

AgentsSecondCompletions ==
    {Raises, Returns("Done."), Returns("Transfer to triage agent")}

\* ---------------------------------------------------- Agent.process_message
\* conversation_history[-10:]
HistoryWindow == 10

\* Mutant: the window is taken from the start of the history.
FirstEntries(history, n) ==
    SubSeq(history, 1, IF Len(history) > n THEN n ELSE Len(history))

LastEntries(history, n) ==
    SubSeq(history, IF Len(history) > n THEN Len(history) - n + 1 ELSE 1, Len(history))

\* The system message: the instructions (the prompt text is abbreviated to the
\* agent's name) and, for an agent with tools, the tool list and the calling
\* convention.
RECURSIVE ToolDescriptions(_)
ToolDescriptions(tools) ==
    IF tools = <<>> THEN ""
    ELSE "- " \o Head(tools) \o (IF Len(tools) > 1 THEN "\n" ELSE "")
             \o ToolDescriptions(Tail(tools))

SystemMessage(name) ==
    IF AgentTools(name) # <<>>
    THEN name \o "\n\nAvailable tools:\n" \o ToolDescriptions(AgentTools(name))
              \o "\n\nTo use a tool, respond with: TOOL:<tool_name>(<arguments>)"
    ELSE name

NoMetadata == <<>>

Event(type, agent, content, metadata) ==
    [type |-> type, agent |-> agent, content |-> content, metadata |-> metadata]

Message(role, content) == [role |-> role, content |-> content]

\* next((w for w in message.split() if len(w) <= 3 and any digit and any alpha), "1A")
IsSeatWord(w) ==
    /\ Len(w) <= 3
    /\ \E i \in 1..Len(w) : IsDigit(CharAt(w, i))
    /\ \E i \in 1..Len(w) : IsAlpha(CharAt(w, i))

ExtractSeat(message) ==
    LET words == Words(message)
    IN IF \E i \in 1..Len(words) : IsSeatWord(words[i])
       THEN words[CHOOSE i \in 1..Len(words) :
                    /\ IsSeatWord(words[i])
                    /\ \A j \in 1..(i - 1) : ~IsSeatWord(words[j])]
       ELSE "1A"

\* The scans of the user message, evaluated once for every message.
ExtractSeatOf == [m \in AllMessages |-> ExtractSeat(m)] @@ <<>>
FaqAnswerOf == [m \in AllMessages |-> faq_lookup_tool(m)] @@ <<>>

\* Mutant: every tool name is taken for a tool of the agent.
FindToolUnchecked(name, tool_name) == tool_name

\* next((t for t in self.tools if t.__name__ == tool_name), None)
FindTool(name, tool_name) ==
    IF \E i \in 1..Len(AgentTools(name)) : AgentTools(name)[i] = tool_name
    THEN tool_name
    ELSE None

\* The per-tool-name dispatch: (tool_result, context after the tool ran).
ExecuteTool(tool_name, message, context) ==
    IF tool_name = "faq_lookup_tool"
    THEN [result |-> FaqAnswerOf[message], context |-> context]
    ELSE IF tool_name = "update_seat"
    THEN update_seat(context, OrElse(context.confirmation_number, "ABC123"),
                     ExtractSeatOf[message])
    ELSE IF tool_name = "flight_status_tool"
    THEN [result |-> flight_status_tool(OrElse(context.flight_number, "FLT-123")),
          context |-> context]
    ELSE IF tool_name = "display_seat_map"
    THEN [result |-> display_seat_map(context), context |-> context]
    ELSE IF tool_name = "cancel_flight"
    THEN [result |-> cancel_flight(context), context |-> context]
    ELSE [result |-> "Tool executed successfully", context |-> context]

Apology == "I apologize, but I encountered an error while processing your request."

\* Mutant: a target named in the response is selected without a trigger word.
DetectHandoffWithoutTrigger(name, final_response) ==
    LET low == Lower(final_response)
        hs == AgentHandoffs(name)
        hit(i) == Contains(low, Lower(hs[i]))
    IN IF \E i \in 1..Len(hs) : hit(i)
       THEN hs[CHOOSE i \in 1..Len(hs) : hit(i) /\ \A j \in 1..(i - 1) : ~hit(j)]
       ELSE None

\* The hand-off scan: the first agent of self.handoffs whose name is in the
\* response, when the response holds "transfer" or "handoff"; None otherwise.
DetectHandoff(name, final_response) ==
    LET low == Lower(final_response)
        hs == AgentHandoffs(name)
        hit(i) == Contains(low, Lower(hs[i]))
    IN IF (Contains(low, "transfer") \/ Contains(low, "handoff"))
          /\ \E i \in 1..Len(hs) : hit(i)
       THEN hs[CHOOSE i \in 1..Len(hs) : hit(i) /\ \A j \in 1..(i - 1) : ~hit(j)]
       ELSE None

\* The tool the response asks for and the agent has: response.startswith("TOOL:"),
\* the name up to the first "(", and the lookup in self.tools. None when the
\* response asks for no tool or for one the agent does not have.
RequestedTool(name, response) ==
    IF StartsWith(response, "TOOL:")
    THEN FindTool(name, SplitFirst(Strip(SubSeq(response, 6, Len(response))), "("))
    ELSE None

\* The texts a response can be.
CompletionTexts ==
    {c.text : c \in FirstCompletions \cup SecondCompletions
                     \cup AgentsFirstCompletions \cup AgentsSecondCompletions}
        \cup {Apology}

\* The string scans above, evaluated once for every message and text.
RequestedToolOf ==
    [x \in AgentNames \X CompletionTexts |-> RequestedTool(x[1], x[2])] @@ <<>>
DetectHandoffOf ==
    [x \in AgentNames \X CompletionTexts |-> DetectHandoff(x[1], x[2])] @@ <<>>

\* Mutant: the tool phase lets the text of the follow-up call through as it is.
ToolPhaseResponseUncaught(llm2) == llm2.text

\* final_response after the tool phase: the text of the follow-up call, or the
\* apology the except clause puts in its place when the call raised.
ToolPhaseResponse(llm2) == IF llm2.raises THEN Apology ELSE llm2.text

\* Mutant: the except clause also drops the events of the failed tool phase.
ToolPhaseEventsDroppedOnError(name, tool_name, tool_result, llm2) ==
    IF llm2.raises THEN <<>>
    ELSE <<Event("tool_call", name, tool_name, NoMetadata),
           Event("tool_output", name, tool_result, NoMetadata)>>

\* The events of the tool phase: tool_call is appended before the tool runs and
\* tool_output before the follow-up call, and the except clause leaves the list
\* as it is, whatever the follow-up call llm2 does.
ToolPhaseEvents(name, tool_name, tool_result, llm2) ==
    <<Event("tool_call", name, tool_name, NoMetadata),
      Event("tool_output", name, tool_result, NoMetadata)>>

\* process_message for the agent `name`. llm1 and llm2 are what the first and the
\* second chat_completion call do: [raises |-> BOOLEAN, text |-> STRING].
\* The result holds the returned dict (response, events, handoff_to), the context
\* object after the call (tools mutate it in place), the message lists sent to
\* chat_completion, and raised: the call left process_message by an exception.
process_message(name, message, context, conversation_history, llm1, llm2) ==
    LET messages == <<Message("system", SystemMessage(name))>>
                        \o LastEntries(conversation_history, HistoryWindow)
                        \o <<Message("user", message)>>
        response == llm1.text
        tool_name == RequestedToolOf[<<name, response>>]
        runs_tool == tool_name # None
        ran == ExecuteTool(tool_name, message, context)
        messages2 == messages \o
            <<Message("assistant", response),
              Message("user", "Tool result: " \o ran.result
                                  \o ". Please provide a response to the customer.")>>
        tool_events == IF runs_tool
                       THEN ToolPhaseEvents(name, tool_name, ran.result, llm2)
                       ELSE <<>>
        final_response == IF ~runs_tool THEN response ELSE ToolPhaseResponse(llm2)
        handoff_agent == DetectHandoffOf[<<name, final_response>>]
        handoff_events ==
            IF handoff_agent # None
            THEN <<Event("handoff", name, name \o " -> " \o handoff_agent,
                         [source_agent |-> name, target_agent |-> handoff_agent])>>
            ELSE <<>>
    IN IF llm1.raises
       THEN [raised |-> TRUE, response |-> "", events |-> <<>>, handoff_to |-> None,
             context |-> context, calls |-> <<messages>>]
       ELSE [raised |-> FALSE,
             response |-> final_response,
             events |-> tool_events \o handoff_events,
             handoff_to |-> handoff_agent,
             context |-> IF runs_tool THEN ran.context ELSE context,
             calls |-> IF runs_tool THEN <<messages, messages2>> ELSE <<messages>>]

\* ------------------------------------------------ InMemoryConversationStore
\* _conversations is a function from the stored conversation ids to their state
\* dicts [conversation_history, context, current_agent].

\* conversation_store.get(id) is None
NotStored(store, conversation_id) == conversation_id \notin DOMAIN store

\* conversation_store.get(id): the stored dict itself, or None (the value with
\* no key stands for it: `not state` holds of both None and an empty dict).
Get(store, conversation_id) ==
    IF NotStored(store, conversation_id) THEN <<>> ELSE store[conversation_id]

\* Mutant: save writes the state under every stored id.
SaveUnderEveryId(store, conversation_id, state) ==
    [k \in DOMAIN store \cup {conversation_id} |-> state]

\* conversation_store.save(id, state)
Save(store, conversation_id, state) ==
    [k \in DOMAIN store \cup {conversation_id} |->
        IF k = conversation_id THEN state ELSE store[k]]

\* `not state` for a dict: it has no key.
EmptyDict(state) == DOMAIN state = {}

\* ----------------------------------------------------------- chat_endpoint
Refusal == "Sorry, I can only answer questions related to airline travel."

\* The state a conversation that is not stored is recorded with.
NoState == [conversation_history |-> <<>>, context |-> AirlineAgentContext,
            current_agent |-> None]

StoredState(store, conversation_id) ==
    IF NotStored(store, conversation_id) THEN NoState ELSE store[conversation_id]

\* What the client receives: a ChatResponse (status 200) or an HTTP error.
ChatResponse(conversation_id, current_agent, messages, events, context, guardrails) ==
    [status |-> 200, detail |-> "", conversation_id |-> conversation_id,
     current_agent |-> current_agent, messages |-> messages, events |-> events,
     context |-> context, guardrails |-> guardrails]

HTTPException(status, detail) ==
    [status |-> status, detail |-> detail, conversation_id |-> None,
     current_agent |-> None, messages |-> <<>>, events |-> <<>>,
     context |-> AirlineAgentContext, guardrails |-> <<>>]

\* `except Exception as e: raise HTTPException(status_code=500, detail=str(e))`:
\* every exception raised inside the try block, an HTTPException included,
\* leaves the endpoint as a 500.
CaughtAtTurnBoundary(detail) == HTTPException(500, detail)

MessageResponse(content, agent) == [content |-> content, agent |-> agent]

\* The state dict the handler works on: the stored dict itself (an alias, so
\* every mutation is a mutation of the store) for a stored conversation, a
\* local dict for a new one.
FrameState(store, frame) ==
    IF frame.is_new THEN frame.local ELSE store[frame.conversation_id]

\* An in-place mutation of the state dict the handler works on.
StoreAfterMutation(store, frame, state) ==
    IF frame.is_new THEN store ELSE [store EXCEPT ![frame.conversation_id] = state]

\* Mutant: only a request without an id starts a new conversation.
IsNewWithoutId(store, req) == Falsy(req.conversation_id)

\* is_new = not req.conversation_id or conversation_store.get(...) is None
IsNew(store, req) ==
    Falsy(req.conversation_id) \/ NotStored(store, req.conversation_id)

\* Mutant: the short name of the triage agent.
InitialAgentShortName == "Triage"

\* current_agent_name of a new conversation.
InitialAgent == "Triage Agent"

\* Mutant: a new conversation keeps the id the request supplied.
KeepSuppliedId(is_new, req, uuid) ==
    IF is_new /\ Falsy(req.conversation_id) THEN uuid ELSE req.conversation_id

\* The id the turn works under: uuid4().hex for a new conversation, the
\* request's id otherwise.
TurnConversationId(is_new, req, uuid) ==
    IF is_new THEN uuid ELSE req.conversation_id

\* Mutant: the refusal path appends the refusal alone.
AppendRefusalOnly(state, message) ==
    [state EXCEPT !.conversation_history = @ \o <<Message("assistant", Refusal)>>]

\* The refusal path's two appends to state["conversation_history"].
AppendRefusal(state, message) ==
    [state EXCEPT !.conversation_history =
        @ \o <<Message("user", message), Message("assistant", Refusal)>>]

\* Mutant: the user message starts the history afresh.
RestartWithUser(state, message) ==
    [state EXCEPT !.conversation_history = <<Message("user", message)>>]

\* state["conversation_history"].append({"role": "user", ...}) before the agent
\* is called.
AppendUser(state, message) ==
    [state EXCEPT !.conversation_history = @ \o <<Message("user", message)>>]

\* Mutant: a blank message short-circuits on stored conversations too.
ShortCircuitsOnBlank(is_new, message) == IsBlankOf[message]

\* `if is_new: ... if req.message.strip() == "":` the early return of a created
\* conversation whose message is blank.
ShortCircuits(is_new, message) == is_new /\ IsBlankOf[message]

\* chat_endpoint up to the call of process_message. uuid and account are the
\* uuid4().hex and the account number drawn for a new conversation.
\* finished: the handler returned or raised before reaching the agent.
BeginTurn(store, req, uuid, account) ==
    LET is_new == IsNew(store, req)
        conversation_id == TurnConversationId(is_new, req, uuid)
        ctx == create_initial_context(account)
        state == IF is_new
                 THEN [conversation_history |-> <<>>, context |-> ctx,
                       current_agent |-> InitialAgent]
                 ELSE Get(store, conversation_id)
        entry == [request |-> req, conversation_id |-> conversation_id,
                  is_new |-> is_new,
                  before |-> StoredState(store, conversation_id)]
        guardrails == GuardrailsOf[req.message]
        failed_guardrail == \E i \in 1..Len(guardrails) : ~guardrails[i].passed
        refused == AppendRefusal(state, req.message)
        with_user == AppendUser(state, req.message)
        frame == [request |-> req, conversation_id |-> conversation_id,
                  is_new |-> is_new,
                  before |-> StoredState(store, conversation_id),
                  local |-> IF is_new THEN with_user ELSE NoState,
                  old_context |-> state.context,
                  agent |-> get_agent_by_name(state.current_agent),
                  guardrails |-> guardrails]
    IN IF ShortCircuits(is_new, req.message)
       THEN [finished |-> TRUE, outcome |-> "created_empty", frame |-> entry,
             store |-> Save(store, conversation_id, state),
             response |-> ChatResponse(conversation_id, InitialAgent, <<>>, <<>>,
                                       ctx, <<>>)]
       ELSE IF ~is_new /\ EmptyDict(state)
       THEN [finished |-> TRUE, outcome |-> "failed", frame |-> entry,
             store |-> store,
             response |-> CaughtAtTurnBoundary("404: Conversation not found")]
       ELSE IF failed_guardrail
       THEN [finished |-> TRUE, outcome |-> "refused", frame |-> entry,
             store |-> Save(store, conversation_id, refused),
             response |-> ChatResponse(conversation_id, state.current_agent,
                              <<MessageResponse(Refusal, state.current_agent)>>,
                              <<>>, state.context, guardrails)]
       ELSE [finished |-> FALSE, outcome |-> "awaiting", frame |-> frame,
             store |-> StoreAfterMutation(store, frame, with_user),
             response |-> HTTPException(0, "")]

\* Mutant: the seat-map sentinel brings no message.
SeatMapMessagesNone(events, agent) == <<>>

\* The extra message of each tool_output event that carries the seat-map sentinel.
SeatMapMessages(events, agent) ==
    LET hits == SelectSeq(events, LAMBDA e :
                    e.type = "tool_output" /\ e.content = "DISPLAY_SEAT_MAP")
    IN [i \in 1..Len(hits) |-> MessageResponse("DISPLAY_SEAT_MAP", agent)]

\* Mutant: only the fields that were unset before count as changed.
ContextChangesNewlySet(old_context, new_context) ==
    [k \in {f \in ContextFields : Falsy(old_context[f]) /\ ~Falsy(new_context[f])}
        |-> new_context[k]]

\* changes = {k: new_context[k] for k in new_context if old_context.get(k) != new_context[k]}
ContextChanges(old_context, new_context) ==
    [k \in {f \in ContextFields : old_context[f] # new_context[f]} |-> new_context[k]]

\* Mutant: the hand-off step leaves state["current_agent"].
KeepStoredAgent(stored_agent, handoff_to) == stored_agent

\* state["current_agent"] after the hand-off step.
NextAgent(stored_agent, handoff_to) ==
    IF ~Falsy(handoff_to) THEN handoff_to ELSE stored_agent

\* Mutant: the context_update event is put in front of the agent's events.
TurnEventsUpdateFirst(agent_events, context_update) ==
    context_update \o agent_events

\* The events of the response: the agent's events, copied in their order, and
\* after them the context_update event, if there is one.
TurnEvents(agent_events, context_update) == agent_events \o context_update

\* chat_endpoint from the call of process_message on. result is what
\* process_message did; flight and confirmation are the values
\* setup_context_for_agent draws.
FinishTurn(store, frame, result, flight, confirmation) ==
    LET state == FrameState(store, frame)
        agent == frame.agent
        \* tools have mutated state["context"] in place
        history == state.conversation_history
                       \o <<Message("assistant", result.response)>>
        messages == <<MessageResponse(result.response, agent)>>
                        \o SeatMapMessages(result.events, agent)
        hands_off == ~Falsy(result.handoff_to)
        current_agent == IF hands_off THEN result.handoff_to ELSE agent
        context == IF hands_off
                   THEN setup_context_for_agent(result.context, result.handoff_to,
                                                flight, confirmation)
                   ELSE result.context
        changes == ContextChanges(frame.old_context, context)
        events == TurnEvents(result.events,
                             IF DOMAIN changes # {}
                             THEN <<Event("context_update", current_agent, "",
                                          [changes |-> changes])>>
                             ELSE <<>>)
        final == [conversation_history |-> history, context |-> context,
                  current_agent |-> NextAgent(state.current_agent, result.handoff_to)]
    IN IF result.raised
       THEN [outcome |-> "failed", store |-> store,
             response |-> CaughtAtTurnBoundary("Error calling OpenRouter API")]
       ELSE [outcome |-> "processed",
             store |-> Save(store, frame.conversation_id, final),
             response |-> ChatResponse(frame.conversation_id, current_agent, messages,
                                       events, context, frame.guardrails)]

\* ------------------------------------------------------------------- state
VARIABLES
    conversations,  \* InMemoryConversationStore._conversations
    inflight,       \* requests the server accepted and has not started to handle
    suspended,      \* handler frames parked at an await
    last            \* the turn finished last: its request, outcome and response

vars == <<conversations, inflight, suspended, last>>

RECURSIVE SumHistory(_, _)
SumHistory(store, ids) ==
    IF ids = {} THEN 0
    ELSE LET c == CHOOSE x \in ids : TRUE
         IN Len(store[c].conversation_history) + SumHistory(store, ids \ {c})

\* The history entries the store holds.
TotalHistory(store) == SumHistory(store, DOMAIN store)

NoTurn ==
    [request |-> [conversation_id |-> None, message |-> ""], outcome |-> "none",
     response |-> HTTPException(0, ""), is_new |-> FALSE, conversation_id |-> None,
     before |-> NoState, agent |-> None, handoff_to |-> None, calls |-> <<>>,
     old_context |-> AirlineAgentContext, tool_context |-> AirlineAgentContext,
     flight |-> None, confirmation |-> None, completions |-> <<>>]

Init ==
    /\ conversations = <<>>
    /\ inflight = {}
    /\ suspended = {}
    /\ last = NoTurn

\* The requests a client can send: no id, an unknown id, or a stored one.
Requests(store) ==
    [conversation_id : {None, UnknownId} \cup DOMAIN store, message : Messages]

\* The store has room for the turn.
HasRoom(store, req, max_conversations, max_history) ==
    /\ TotalHistory(store) + 2 <= max_history
    /\ IsNew(store, req) => Cardinality(DOMAIN store) < max_conversations

\* process_message makes its second chat_completion call.
CallsTwice(name, first) ==
    ~first.raises /\ RequestedToolOf[<<name, first.text>>] # None

\* setup_context_for_agent draws a flight number, a confirmation number.
DrawsFlight(result) ==
    \/ result.handoff_to = "Seat Booking Agent"
    \/ result.handoff_to = "Cancellation Agent" /\ Falsy(result.context.flight_number)
DrawsConfirmation(result) ==
    \/ result.handoff_to = "Seat Booking Agent"
    \/ result.handoff_to = "Cancellation Agent"
          /\ Falsy(result.context.confirmation_number)

\* The record of a turn that ended before the agent was called.
EarlyTurn(b) ==
    [NoTurn EXCEPT !.request = b.frame.request, !.outcome = b.outcome,
                   !.response = b.response, !.is_new = b.frame.is_new,
                   !.conversation_id = b.frame.conversation_id,
                   !.before = b.frame.before]

\* The record of a turn that called the agent.
AgentTurn(frame, result, f, flight, confirmation, completions) ==
    [request |-> frame.request, outcome |-> f.outcome, response |-> f.response,
     is_new |-> frame.is_new, conversation_id |-> frame.conversation_id,
     before |-> frame.before, agent |-> frame.agent,
     handoff_to |-> result.handoff_to, calls |-> result.calls,
     old_context |-> frame.old_context, tool_context |-> result.context,
     flight |-> flight, confirmation |-> confirmation,
     completions |-> completions]

\* The handler from the call of process_message to its end, for a frame.
Complete(store, frame, firsts, seconds) ==
    \E first \in firsts :
    \E second \in IF CallsTwice(frame.agent, first) THEN seconds ELSE {NoCall} :
        LET state == FrameState(store, frame)
            result == process_message(frame.agent, frame.request.message,
                                      state.context, state.conversation_history,
                                      first, second)
        IN \E draw \in IF DrawsFlight(result) \/ DrawsConfirmation(result)
                       THEN SetupDraws ELSE {<<None, None>>} :
              LET flight == IF DrawsFlight(result) THEN draw[1] ELSE None
                  confirmation == IF DrawsConfirmation(result) THEN draw[2] ELSE None
                  f == FinishTurn(store, frame, result, flight, confirmation)
              IN /\ conversations' = f.store
                 /\ last' = AgentTurn(frame, result, f, flight, confirmation,
                                      IF CallsTwice(frame.agent, first)
                                      THEN <<first, second>> ELSE <<first>>)

\* One whole run of chat_endpoint on req, from its first statement to its last.
RunHandler(req, firsts, seconds) ==
    \E account \in AccountNumbers :
        LET b == BeginTurn(conversations, req, FreshUuid(conversations, {}), account)
        IN IF b.finished
           THEN /\ conversations' = b.store
                /\ last' = EarlyTurn(b)
           ELSE Complete(b.store, b.frame, firsts, seconds)

\* A client sends a request and waits for the server to handle it.
Turn ==
    \E req \in Requests(conversations) :
        /\ HasRoom(conversations, req, MaxConversations, MaxHistory)
        /\ RunHandler(req, FirstCompletions, SecondCompletions)
        /\ UNCHANGED <<inflight, suspended>>

Next == Turn

Spec == Init /\ [][Next]_vars

\* ------------------------------------------------------ requests in flight
\* Mutant: the handler awaits the generation call (the asynchronous client).
ChatCompletionAwaited == TRUE

\* chat_endpoint is a coroutine (async def) on the server's event loop; the loop
\* runs a handler until it awaits. Whether a handler awaits at the call of
\* chat_completion: process_message and chat_completion are plain calls
\* (requests.post blocks), so it does not.
ChatCompletionAwaits == FALSE

\* The requests of clients that open a conversation with a blank message and
\* then send their messages under the id they got.
ConcurrentMessages == {"seat 2B", "ignore seat"}

ConcurrentRequests(store) ==
    {[conversation_id |-> None, message |-> "  "]} \cup
    [conversation_id : DOMAIN store, message : ConcurrentMessages]

ConcurrentCompletions ==
    {Raises, Returns("Hello."), Returns("Transfer to Seat Booking Agent")}

\* A client sends a request without waiting for the answers to earlier ones.
Receive ==
    \E req \in ConcurrentRequests(conversations) :
        /\ Cardinality(inflight) < MaxInflight
        /\ req \notin inflight
        /\ inflight' = inflight \cup {req}
        /\ UNCHANGED <<conversations, suspended, last>>

\* The handler of req up to its await: it ends there or is parked.
StartHandler(req) ==
    \E account \in AccountNumbers :
        LET taken == {f.conversation_id : f \in suspended}
            b == BeginTurn(conversations, req, FreshUuid(conversations, taken), account)
        IN /\ conversations' = b.store
           /\ IF b.finished
              THEN last' = EarlyTurn(b) /\ suspended' = suspended
              ELSE last' = last /\ suspended' = suspended \cup {b.frame}

\* A parked handler runs on from its await to its end.
ResumeHandler ==
    \E frame \in suspended :
        /\ Complete(conversations, frame, ConcurrentCompletions, SecondCompletions)
        /\ suspended' = suspended \ {frame}
        /\ inflight' = inflight

\* The event loop runs the handler of an accepted request.
Handle ==
    IF ChatCompletionAwaits
    THEN \E start \in BOOLEAN :
            IF start
            THEN \E req \in inflight :
                    /\ HasRoom(conversations, req, MaxConcurrentConversations,
                               MaxConcurrentHistory)
                    /\ StartHandler(req)
                    /\ inflight' = inflight \ {req}
            ELSE ResumeHandler
    ELSE \E req \in inflight :
            /\ HasRoom(conversations, req, MaxConcurrentConversations,
                       MaxConcurrentHistory)
            /\ RunHandler(req, ConcurrentCompletions, SecondCompletions)
            /\ inflight' = inflight \ {req}
            /\ suspended' = suspended

NextConcurrent == Receive \/ Handle

SpecConcurrent == Init /\ [][NextConcurrent]_vars

\* ------------------------------------------------- the agents, exercised
\* Clients that talk to the agents while the model answers with every kind of
\* completion: plain text, tool requests, hand-off wordings.
AgentsRequests(store) ==
    [conversation_id : {None} \cup DOMAIN store, message : AgentsMessages]

AgentsTurn ==
    \E req \in AgentsRequests(conversations) :
        /\ HasRoom(conversations, req, MaxConversations, 2 * MaxAgentsTurns)
        /\ RunHandler(req, AgentsFirstCompletions, AgentsSecondCompletions)
        /\ UNCHANGED <<inflight, suspended>>

NextAgents == AgentsTurn

SpecAgents == Init /\ [][NextAgents]_vars

\* ------------------------------------------- the prompt window, exercised
\* Clients that keep a conversation going, with two messages to tell the turns
\* apart, until its history is longer than the window of the prompt.
WindowMessages == {"  ", "seat 2B"}

WindowRequests(store) ==
    [conversation_id : {None} \cup DOMAIN store, message : WindowMessages]

WindowCompletions == {Returns("Hello.")}

WindowTurn ==
    \E req \in WindowRequests(conversations) :
        /\ HasRoom(conversations, req, MaxConversations, 2 * MaxWindowTurns)
        /\ RunHandler(req, WindowCompletions, {NoCall})
        /\ UNCHANGED <<inflight, suspended>>

NextWindow == WindowTurn

SpecWindow == Init /\ [][NextWindow]_vars

\* --------------------------------------------- the guardrails, exercised
\* Clients that send every kind of message while the model answers plainly.
GuardrailRequests(store) ==
    [conversation_id : {None} \cup DOMAIN store, message : GuardrailMessages]

GuardrailCompletions == {Returns("Hello.")}

GuardrailTurn ==
    \E req \in GuardrailRequests(conversations) :
        /\ HasRoom(conversations, req, MaxConversations, 2 * MaxGuardrailTurns)
        /\ RunHandler(req, GuardrailCompletions, {NoCall})
        /\ UNCHANGED <<inflight, suspended>>

NextGuardrails == GuardrailTurn

SpecGuardrails == Init /\ [][NextGuardrails]_vars

\* ------------------------------------------------------------------ claims
\* The stored state of the conversation the last turn worked on.
LastState == StoredState(conversations, last.conversation_id)

TurnDone == last.outcome # "none"

\* The last turn's message fails at least one guardrail check.
LastMessageFailsGuardrail ==
    \E i \in 1..Len(GuardrailsOf[last.request.message]) :
        ~GuardrailsOf[last.request.message][i].passed

\* C1: when the generation call of a turn fails, the turn ends as a generic
\* failure (500) and the stored state of its conversation is what it was before
\* the turn, for new and for stored conversations alike.
C1_FailedCallLeavesStateUntouched ==
    (last.outcome = "failed" /\ last.calls # <<>>) =>
        /\ last.response.status = 500
        /\ LastState = last.before

\* C2: a turn whose message fails a guardrail check never calls the generation
\* client or an agent, answers with the fixed refusal, no events and the
\* guardrail results, leaves active agent and context alone, and appends
\* exactly the user message and the refusal to the stored history.
C2_RefusedTurn ==
    (TurnDone /\ LastMessageFailsGuardrail) =>
        /\ last.outcome = "refused"
        /\ last.calls = <<>>
        /\ last.agent = None
        /\ last.handoff_to = None
        /\ last.response.status = 200
        /\ last.response.conversation_id = last.conversation_id
        /\ last.response.events = <<>>
        /\ last.response.guardrails = GuardrailsOf[last.request.message]
        /\ last.response.messages =
              <<[content |-> "Sorry, I can only answer questions related to airline travel.",
                 agent |-> LastState.current_agent]>>
        /\ last.response.current_agent = LastState.current_agent
        /\ last.response.context = LastState.context
        /\ LastState.conversation_history =
              last.before.conversation_history \o
                 <<[role |-> "user", content |-> last.request.message],
                   [role |-> "assistant",
                    content |-> "Sorry, I can only answer questions related to airline travel."]>>
        /\ ~last.is_new =>
              /\ LastState.current_agent = last.before.current_agent
              /\ LastState.context = last.before.context
        /\ last.is_new =>
              /\ LastState.current_agent = "Triage Agent"
              /\ LastState.context.account_number \in AccountNumbers
              /\ \A k \in ContextFields \ {"account_number"} : LastState.context[k] = None

\* A refused turn on a stored conversation that a specialist holds and whose
\* context is filled.
C2_Witness ==
    /\ last.outcome = "refused"
    /\ ~last.is_new
    /\ last.before.current_agent = "Seat Booking Agent"
    /\ last.before.context.confirmation_number # None
    /\ Len(last.before.conversation_history) >= 2

\* The user and assistant entries a finished turn adds to its history.
LastPair ==
    <<[role |-> "user", content |-> last.request.message],
      [role |-> "assistant", content |-> last.response.messages[1].content]>>

\* The context_update events of the last response.
LastContextUpdates ==
    SelectSeq(last.response.events, LAMBDA e : e.type = "context_update")

\* C3: turns on one conversation run one at a time, whatever requests are in
\* flight together: no handler is parked in the middle of a turn, every turn
\* that answers leaves the history it found followed by its own user and
\* assistant entries, next to each other, and the stored context and active
\* agent are those it found, changed only by what the turn itself reports.
C3_TurnsOnOneConversationSerialized ==
    /\ suspended = {}
    /\ last.outcome \in {"processed", "refused"} =>
          /\ LastState.conversation_history =
                last.before.conversation_history \o LastPair
          /\ LastState.context = last.response.context
          /\ LastState.current_agent = last.response.current_agent
    /\ (last.outcome = "processed" /\ ~last.is_new) =>
          /\ \A k \in ContextFields :
                LastState.context[k] # last.before.context[k] =>
                    /\ Len(LastContextUpdates) = 1
                    /\ k \in DOMAIN LastContextUpdates[1].metadata.changes
          /\ LastState.current_agent # last.before.current_agent =>
                LastState.current_agent = last.handoff_to

\* A turn answered on a stored conversation while another request for the same
\* conversation is in flight.
C3_Witness ==
    /\ last.outcome = "processed"
    /\ ~last.is_new
    /\ Len(LastState.conversation_history) >= 2
    /\ \E r \in inflight : r.conversation_id = last.conversation_id

\* C4 as stated: a turn that names a conversation id the store does not hold ends
\* in a not-found failure and creates or changes no conversation state.
C4_UnknownIdIsNotFound ==
    (TurnDone /\ last.request.conversation_id = UnknownId) =>
        /\ last.response.status = 404
        /\ LastState = last.before

\* C4 as amended: a turn that names a conversation id the store does not hold
\* never ends in a not-found failure; it is handled as a new conversation under
\* a generated id (it fails only when the generation call fails), and no state
\* is ever stored under the id it named.
C4_UnknownIdStartsNewConversation ==
    /\ UnknownId \notin DOMAIN conversations
    /\ (TurnDone /\ last.request.conversation_id = UnknownId) =>
          /\ last.response.status # 404
          /\ last.conversation_id # UnknownId
          /\ last.before = NoState
          /\ last.response.status # 200 =>
                (last.calls # <<>> /\ last.response.status = 500)
          /\ last.response.status = 200 =>
                /\ last.response.conversation_id = last.conversation_id
                /\ last.conversation_id \in DOMAIN conversations

\* A refused turn that named an unknown id: it is answered, under a new id.
C4_Witness ==
    /\ last.request.conversation_id = UnknownId
    /\ last.outcome = "refused"
    /\ last.response.status = 200
    /\ last.response.conversation_id \in DOMAIN conversations

\* C5: a turn with no conversation id or with one the store does not hold works
\* on a new state under a generated id, which the response carries instead of
\* the id supplied; a turn with a stored id works on the state stored under it
\* and returns that id.
C5_ResolveOrCreate ==
    TurnDone =>
        IF last.request.conversation_id \in {None, UnknownId}
        THEN /\ last.conversation_id # last.request.conversation_id
             /\ \E n \in 1..(MaxConversations + MaxConcurrentConversations + 2) :
                    last.conversation_id = UuidHex(n)
             /\ last.before = NoState
             /\ last.response.status = 200 =>
                   /\ last.response.conversation_id = last.conversation_id
                   /\ last.conversation_id \in DOMAIN conversations
                   /\ LastState.context.account_number \in AccountNumbers
             /\ last.response.status # 200 =>
                   last.conversation_id \notin DOMAIN conversations
        ELSE /\ last.conversation_id = last.request.conversation_id
             /\ last.before # NoState
             /\ last.conversation_id \in DOMAIN conversations
             /\ last.response.status = 200 =>
                   /\ last.response.conversation_id = last.request.conversation_id
                   /\ LastState.conversation_history =
                         last.before.conversation_history \o LastPair
                   /\ LastState.context.account_number =
                         last.before.context.account_number

\* A turn that named an unknown id and was answered by the agent.
C5_Witness ==
    /\ last.request.conversation_id = UnknownId
    /\ last.outcome = "processed"
    /\ last.response.conversation_id = "uuid-1"
    /\ "uuid-1" \in DOMAIN conversations

\* C6: the active agent of every stored conversation is one of the five agents.
C6_ActiveAgentKnown ==
    \A c \in DOMAIN conversations :
        conversations[c].current_agent \in
            {"Triage Agent", "Seat Booking Agent", "Flight Status Agent",
             "Cancellation Agent", "FAQ Agent"}

\* A conversation handed to a specialist, back to triage and to another specialist.
C6_Witness ==
    \E c \in DOMAIN conversations :
        /\ conversations[c].current_agent = "Cancellation Agent"
        /\ Len(conversations[c].conversation_history) = 6
        /\ conversations[c].context.confirmation_number # None

\* The active agent a turn found: the stored one, or triage for a new conversation.
AgentBefore == IF last.is_new THEN "Triage Agent" ELSE last.before.current_agent

\* C7: after a turn whose agent returned the hand-off target T the stored active
\* agent and the response's current agent are T; a turn without a target, a
\* refused turn and a failed turn leave the active agent; and every turn the
\* agent answers is answered by the active agent stored before it (so by T on
\* the next such turn).
C7_HandoffTakesEffect ==
    /\ last.outcome = "processed" =>
          /\ last.agent = AgentBefore
          /\ last.response.messages[1].agent = AgentBefore
          /\ last.handoff_to # None =>
                /\ LastState.current_agent = last.handoff_to
                /\ last.response.current_agent = last.handoff_to
          /\ last.handoff_to = None =>
                /\ LastState.current_agent = AgentBefore
                /\ last.response.current_agent = AgentBefore
    /\ (last.outcome \in {"refused", "failed"} /\ ~last.is_new) =>
          LastState.current_agent = last.before.current_agent

\* A turn answered by the specialist an earlier turn handed the conversation to,
\* and which hands it back.
C7_Witness ==
    /\ last.outcome = "processed"
    /\ last.agent = "Seat Booking Agent"
    /\ last.handoff_to = "Triage Agent"
    /\ LastState.current_agent = "Triage Agent"

Specialists ==
    {"Seat Booking Agent", "Flight Status Agent", "Cancellation Agent", "FAQ Agent"}

\* C8: a turn changes the active agent only from triage to a specialist or from
\* a specialist to triage; no agent hands off to itself, and every specialist
\* can hand back to triage.
C8_HandoffGraph ==
    /\ (TurnDone /\ last.response.status = 200 /\ LastState.current_agent # AgentBefore) =>
          \/ AgentBefore = "Triage Agent" /\ LastState.current_agent \in Specialists
          \/ AgentBefore \in Specialists /\ LastState.current_agent = "Triage Agent"
    /\ last.outcome = "processed" => last.handoff_to # last.agent
    /\ \A a \in Specialists : \E i \in 1..Len(AgentHandoffs(a)) :
          AgentHandoffs(a)[i] = "Triage Agent"

\* A specialist whose response names another specialist hands off to no one.
C8_Witness ==
    /\ last.outcome = "processed"
    /\ last.agent = "Seat Booking Agent"
    /\ last.response.messages[1].content = "TRANSFER TO CANCELLATION AGENT"
    /\ last.handoff_to = None
    /\ LastState.current_agent = "Seat Booking Agent"

\* C9: a hand-off into the seat booking agent sets the confirmation and flight
\* numbers to the values drawn for it, whatever they were; a hand-off into the
\* cancellation agent keeps each of the two that is set and fills each that is
\* not; a hand-off into any other agent, and no hand-off, change no field.
C9_HandoffContextSetup ==
    last.outcome = "processed" =>
        LET ctx == LastState.context
            pre == last.tool_context
            kept(fields) == \A k \in fields : ctx[k] = pre[k]
        IN /\ last.handoff_to = "Seat Booking Agent" =>
                /\ last.confirmation \in ConfirmationNumbers
                /\ last.flight \in FlightNumbers
                /\ ctx.confirmation_number = last.confirmation
                /\ ctx.flight_number = last.flight
                /\ kept(ContextFields \ {"confirmation_number", "flight_number"})
           /\ last.handoff_to = "Cancellation Agent" =>
                /\ IF pre.confirmation_number # None
                   THEN ctx.confirmation_number = pre.confirmation_number
                   ELSE /\ ctx.confirmation_number = last.confirmation
                        /\ last.confirmation \in ConfirmationNumbers
                /\ IF pre.flight_number # None
                   THEN ctx.flight_number = pre.flight_number
                   ELSE /\ ctx.flight_number = last.flight
                        /\ last.flight \in FlightNumbers
                /\ kept(ContextFields \ {"confirmation_number", "flight_number"})
           /\ last.handoff_to \notin {"Seat Booking Agent", "Cancellation Agent"} =>
                kept(ContextFields)

\* A hand-off into the seat booking agent that replaced both numbers by others.
C9_Witness ==
    /\ last.outcome = "processed"
    /\ last.handoff_to = "Seat Booking Agent"
    /\ last.tool_context.confirmation_number = "AAAAAA"
    /\ last.tool_context.flight_number = "FLT-100"
    /\ LastState.context.confirmation_number = "Z9Z9Z9"
    /\ LastState.context.flight_number = "FLT-999"

\* C10: a turn the agent answers carries a context_update event exactly when a
\* context field differs between the snapshot taken before the agent ran and
\* the context after tools and hand-off setup, and the event lists exactly the
\* fields that differ, each with its new value.
C10_ContextUpdateEvent ==
    last.outcome = "processed" =>
        LET old == last.old_context
            new == LastState.context
            changed == {k \in ContextFields : old[k] # new[k]}
            ups == LastContextUpdates
        IN /\ ~last.is_new => old = last.before.context
           /\ new = last.response.context
           /\ Len(ups) = IF changed = {} THEN 0 ELSE 1
           /\ changed # {} =>
                /\ ups[1] = last.response.events[Len(last.response.events)]
                /\ DOMAIN ups[1].metadata.changes = changed
                /\ \A k \in changed : ups[1].metadata.changes[k] = new[k]

\* A hand-off that overwrote two set fields: the event lists both, and only them.
C10_Witness ==
    /\ last.outcome = "processed"
    /\ last.old_context.confirmation_number = "AAAAAA"
    /\ last.old_context.account_number # None
    /\ Len(LastContextUpdates) = 1
    /\ DOMAIN LastContextUpdates[1].metadata.changes =
          {"confirmation_number", "flight_number"}
    /\ LastContextUpdates[1].metadata.changes.confirmation_number = "Z9Z9Z9"

\* The follow-up generation call of the last turn's tool phase raised.
LastToolPhaseFailed ==
    /\ Len(last.completions) = 2
    /\ last.completions[2].raises

\* C11: an error raised in the tool phase of a turn never leaves the agent: the
\* turn answers normally with the fixed apology as its text, the user message
\* and the apology are appended to the history, and the state is stored.
C11_ToolPhaseErrorAbsorbed ==
    (TurnDone /\ LastToolPhaseFailed) =>
        /\ last.outcome = "processed"
        /\ last.response.status = 200
        /\ last.response.conversation_id = last.conversation_id
        /\ last.response.messages[1].content =
              "I apologize, but I encountered an error while processing your request."
        /\ last.conversation_id \in DOMAIN conversations
        /\ LastState.conversation_history =
              last.before.conversation_history \o
                 <<[role |-> "user", content |-> last.request.message],
                   [role |-> "assistant",
                    content |-> "I apologize, but I encountered an error while processing your request."]>>
        /\ LastState.context = last.response.context
        /\ LastState.current_agent = last.agent
        /\ last.handoff_to = None

\* The seat booking agent ran update_seat and its follow-up call raised.
C11_Witness ==
    /\ LastToolPhaseFailed
    /\ last.outcome = "processed"
    /\ last.agent = "Seat Booking Agent"
    /\ last.completions[1].text = "TOOL:update_seat(2B)"
    /\ LastState.context.seat_number = "2B"

\* The events of the last response that have the given type.
LastEventsOfType(type) ==
    SelectSeq(last.response.events, LAMBDA e : e.type = type)

\* C12 as stated: when the tool phase of a turn ends in the apology, the response
\* carries no tool_call event, no tool_output event and no seat-map message.
C12_FailedToolPhaseLeavesNoEvent ==
    (last.outcome = "processed" /\ LastToolPhaseFailed) =>
        /\ LastEventsOfType("tool_call") = <<>>
        /\ LastEventsOfType("tool_output") = <<>>
        /\ Len(last.response.messages) = 1

\* C12 as amended: when the tool phase of a turn ends in the apology, the failure
\* adds no event of its own and removes none: the response starts with the
\* tool_call and tool_output events of the tool that ran before the follow-up
\* call failed, followed at most by a context_update event; the output of
\* display_seat_map still brings the seat-map message, and what update_seat
\* wrote to the context is kept.
C12_FailedToolPhaseKeepsToolEvents ==
    (last.outcome = "processed" /\ LastToolPhaseFailed) =>
        LET events == last.response.events
            apology == [content |-> "I apologize, but I encountered an error while processing your request.",
                        agent |-> last.agent]
        IN /\ Len(events) \in {2, 3}
           /\ events[1].type = "tool_call"
           /\ events[1].agent = last.agent
           /\ events[2].type = "tool_output"
           /\ events[2].agent = last.agent
           /\ Len(events) = 3 => events[3].type = "context_update"
           /\ \/ /\ events[1].content = "display_seat_map"
                 /\ events[2].content = "DISPLAY_SEAT_MAP"
                 /\ last.response.messages =
                       <<apology, [content |-> "DISPLAY_SEAT_MAP", agent |-> last.agent]>>
              \/ /\ events[1].content = "update_seat"
                 /\ events[2].content =
                       "Updated seat to 2B for confirmation number "
                           \o LastState.context.confirmation_number
                 /\ last.response.messages = <<apology>>
                 /\ LastState.context.seat_number = "2B"
                 /\ last.response.context.seat_number = "2B"
              \/ /\ events[1].content = "cancel_flight"
                 /\ events[2].content =
                       "Flight " \o LastState.context.flight_number
                           \o " successfully cancelled"
                 /\ last.response.messages = <<apology>>

\* The seat booking agent ran display_seat_map and its follow-up call raised.
C12_Witness ==
    /\ last.outcome = "processed"
    /\ LastToolPhaseFailed
    /\ last.agent = "Seat Booking Agent"
    /\ Len(last.response.events) = 2
    /\ last.response.events[1].content = "display_seat_map"
    /\ Len(last.response.messages) = 2

\* a is an initial part of b.
IsPrefix(a, b) == Len(a) <= Len(b) /\ SubSeq(b, 1, Len(a)) = a

\* Every stored history stays stored and is only ever extended.
HistoriesOnlyGrow ==
    \A c \in DOMAIN conversations :
        /\ c \in DOMAIN conversations'
        /\ IsPrefix(conversations[c].conversation_history,
                    conversations'[c].conversation_history)

\* A completed turn on a stored conversation whose agent handed off to no one
\* leaves the active agent and adds its user and assistant entries.
HandoffFreeTurnKeepsAgent ==
    (last.outcome = "processed" /\ ~last.is_new /\ last.handoff_to = None) =>
        /\ LastState.current_agent = last.before.current_agent
        /\ Len(LastState.conversation_history) =
              Len(last.before.conversation_history) + 2
        /\ LastState.conversation_history =
              last.before.conversation_history \o LastPair

\* C13: a guardrail-passing, hand-off-free turn on a stored conversation, however
\* often it is repeated, leaves the active agent as it was and makes the stored
\* history longer by exactly its user message and its assistant response; no
\* step of any turn shortens or rewrites a stored history.
C13_RepeatedTurnNoDrift ==
    /\ []HandoffFreeTurnKeepsAgent
    /\ [][HistoriesOnlyGrow]_vars

\* The same turn, answered the same way by a specialist, a second time in a row.
C13_Witness ==
    /\ last.outcome = "processed"
    /\ ~last.is_new
    /\ last.handoff_to = None
    /\ last.agent = "Seat Booking Agent"
    /\ Len(last.before.conversation_history) = 4
    /\ SubSeq(last.before.conversation_history, 3, 4) = LastPair
    /\ Len(LastState.conversation_history) = 6

\* A context as a new conversation has it: an account number and nothing else.
IsInitialContext(context) ==
    /\ context.account_number # None
    /\ context.account_number # ""
    /\ \A k \in {"passenger_name", "confirmation_number", "seat_number",
                 "flight_number"} : context[k] = None

\* C14: a conversation a turn creates starts with the triage agent as active
\* agent, an empty history, an account number, and every other context field
\* unset: that is the state stored when the turn stops at once, and the state
\* the guardrail refusal or the agent of the creating turn starts from.
C14_NewConversationInitialState ==
    (TurnDone /\ last.is_new) =>
        /\ last.before = NoState
        /\ last.outcome = "created_empty" =>
              /\ LastState.current_agent = "Triage Agent"
              /\ LastState.conversation_history = <<>>
              /\ IsInitialContext(LastState.context)
              /\ last.response.current_agent = "Triage Agent"
              /\ last.response.context = LastState.context
        /\ last.outcome = "refused" =>
              /\ LastState.current_agent = "Triage Agent"
              /\ Len(LastState.conversation_history) = 2
              /\ IsInitialContext(LastState.context)
        /\ last.outcome \in {"processed", "failed"} =>
              /\ last.agent = "Triage Agent"
              /\ IsInitialContext(last.old_context)
        /\ last.outcome = "processed" =>
              /\ LastState.conversation_history = LastPair
              /\ last.response.messages[1].agent = "Triage Agent"

\* A conversation created by a blank message under an unknown id.
C14_Witness ==
    /\ last.is_new
    /\ last.outcome = "created_empty"
    /\ last.request.conversation_id = UnknownId
    /\ last.conversation_id \in DOMAIN conversations
    /\ LastState.conversation_history = <<>>

\* C15: a turn that creates a conversation with a message that is empty once
\* trimmed stops at once: it stores the new state with an empty history, runs
\* no guardrail, makes no generation call and answers without messages and
\* events. Only creating turns stop this way: a blank message on a stored
\* conversation goes through the guardrails and on to the agent.
C15_BlankMessageShortCircuit ==
    /\ (TurnDone /\ Strip(last.request.message) = "") =>
          IF last.is_new
          THEN /\ last.outcome = "created_empty"
               /\ last.response.status = 200
               /\ last.response.guardrails = <<>>
               /\ last.response.messages = <<>>
               /\ last.response.events = <<>>
               /\ last.calls = <<>>
               /\ last.completions = <<>>
               /\ last.conversation_id \in DOMAIN conversations
               /\ LastState.conversation_history = <<>>
          ELSE /\ last.outcome \in {"processed", "failed"}
               /\ Len(last.calls) >= 1
               /\ Len(last.completions) >= 1
               /\ last.outcome = "processed" =>
                     /\ Len(last.response.guardrails) = 2
                     /\ \A i \in 1..2 : last.response.guardrails[i].passed
                     /\ Len(last.response.messages) >= 1
                     /\ LastState.conversation_history =
                           last.before.conversation_history \o LastPair
    /\ last.outcome = "created_empty" =>
          (last.is_new /\ Strip(last.request.message) = "")

\* A blank message on a stored conversation, answered by a specialist.
C15_Witness ==
    /\ last.outcome = "processed"
    /\ ~last.is_new
    /\ last.request.message = "  "
    /\ last.agent = "Seat Booking Agent"
    /\ Len(last.response.guardrails) = 2
    /\ Len(LastState.conversation_history) >= 4

\* Every stored conversation has an account number, and the answer of a turn
\* shows the stored one.
AccountNumberSet ==
    /\ \A c \in DOMAIN conversations :
          /\ conversations[c].context.account_number # None
          /\ conversations[c].context.account_number # ""
    /\ (TurnDone /\ last.response.status = 200) =>
          last.response.context.account_number = LastState.context.account_number

\* No step changes the account number of a stored conversation.
AccountNumberKept ==
    \A c \in DOMAIN conversations :
        /\ c \in DOMAIN conversations'
        /\ conversations'[c].context.account_number =
              conversations[c].context.account_number

\* C16: the account number of a conversation is set when the conversation is
\* created and no later turn, tool execution or hand-off setup changes or
\* clears it.
C16_AccountNumberStable ==
    /\ []AccountNumberSet
    /\ [][AccountNumberKept]_vars

\* A stored conversation after a hand-off setup and a run of update_seat, with
\* the account number it was created with.
C16_Witness ==
    /\ last.outcome = "processed"
    /\ ~last.is_new
    /\ Len(last.completions) = 2
    /\ last.completions[1].text = "TOOL:update_seat(2B)"
    /\ LastState.context.seat_number = "2B"
    /\ LastState.context.flight_number \in FlightNumbers
    /\ LastState.context.account_number = last.before.context.account_number
    /\ LastState.context.account_number \in AccountNumbers

\* The text the agent of the last turn returned: the follow-up completion (or the
\* apology in its place) after a tool, the first completion otherwise.
LastResponseText ==
    IF Len(last.completions) = 2
    THEN IF last.completions[2].raises
         THEN "I apologize, but I encountered an error while processing your request."
         ELSE last.completions[2].text
    ELSE last.completions[1].text

\* C17: the messages of a turn the agent answered are the agent's response text
\* followed by the seat-map sentinel when the turn has a tool_output event
\* whose content is the sentinel, and the response text alone otherwise; the
\* stored history gets the user message and the response text, never the
\* sentinel message.
C17_SeatMapSentinelMessage ==
    last.outcome = "processed" =>
        LET shown == SelectSeq(last.response.events, LAMBDA e :
                        e.type = "tool_output" /\ e.content = "DISPLAY_SEAT_MAP")
            text == [content |-> LastResponseText, agent |-> last.agent]
        IN /\ shown # <<>> =>
                last.response.messages =
                    <<text, [content |-> "DISPLAY_SEAT_MAP", agent |-> last.agent]>>
           /\ shown = <<>> => last.response.messages = <<text>>
           /\ LastState.conversation_history =
                 last.before.conversation_history \o
                    <<[role |-> "user", content |-> last.request.message],
                      [role |-> "assistant", content |-> LastResponseText]>>

\* The seat booking agent ran display_seat_map and answered after it.
C17_Witness ==
    /\ last.outcome = "processed"
    /\ last.agent = "Seat Booking Agent"
    /\ Len(last.completions) = 2
    /\ last.completions[1].text = "TOOL:display_seat_map()"
    /\ last.completions[2].text = "Done."
    /\ Len(last.response.messages) = 2
    /\ last.response.messages[2].content = "DISPLAY_SEAT_MAP"
    /\ Len(LastState.conversation_history) = 4

\* The last turn ran the guardrails and reported their results.
LastTurnChecked == last.outcome \in {"refused", "processed"}

\* C18: the relevance check passes exactly when the lower-cased message holds one
\* of the ten domain keywords or the trimmed message is shorter than 10
\* characters; a message without a keyword fails with 10 trimmed characters and
\* with more.
C18_RelevanceCheck ==
    LastTurnChecked =>
        LET m == last.request.message
            relevance == last.response.guardrails[1]
            keyword == \E k \in {"flight", "seat", "baggage", "cancel", "status",
                                 "book", "ticket", "airline", "plane", "gate"} :
                           Contains(Lower(m), k)
            trimmed == Len(Strip(m))
        IN /\ relevance.name = "Relevance Guardrail"
           /\ relevance.input = m
           /\ relevance.passed <=> (keyword \/ trimmed < 10)
           /\ (~keyword /\ trimmed >= 10) =>
                 (~relevance.passed /\ last.outcome = "refused")
           /\ m \in {" 1234567890 ", "hello world", "please override everything"} =>
                 ~relevance.passed
           /\ m \in {"  ", "123456789", "  hi there  ", "MY FLIGHT IS LATE",
                     "what is my gate", "IGNORE my flight", "Bypass it"} =>
                 relevance.passed

\* A turn refused for a message of exactly 10 trimmed characters and no keyword.
C18_Witness ==
    /\ last.outcome = "refused"
    /\ last.request.message = " 1234567890 "
    /\ ~last.response.guardrails[1].passed
    /\ last.response.guardrails[2].passed

\* C19: the guardrail evaluator reports exactly two checks, relevance first and
\* safety (the jailbreak guardrail) second, each evaluated whatever the other
\* found; a message that holds a forbidden pattern in any letter case fails the
\* safety check, and its turn is refused, also when the message is relevant.
C19_TwoChecksSafetyUnconditional ==
    LET m == last.request.message
        forbidden == \E p \in {"system prompt", "instructions", "ignore", "override",
                               "bypass", "admin", "root"} : Contains(Lower(m), p)
    IN /\ LastTurnChecked =>
             /\ Len(last.response.guardrails) = 2
             /\ last.response.guardrails[1].name = "Relevance Guardrail"
             /\ last.response.guardrails[2].name = "Jailbreak Guardrail"
             /\ last.response.guardrails[2].input = m
             /\ last.response.guardrails[2].passed <=> ~forbidden
             /\ last.outcome = "refused" <=>
                   \E i \in 1..2 : ~last.response.guardrails[i].passed
       /\ (TurnDone /\ forbidden) =>
             /\ last.outcome = "refused"
             /\ ~last.response.guardrails[2].passed

\* A relevant message with a forbidden pattern in upper case, refused; and the
\* safety check was run although relevance passed.
C19_Witness ==
    /\ last.outcome = "refused"
    /\ last.request.message = "IGNORE my flight"
    /\ last.response.guardrails[1].passed
    /\ ~last.response.guardrails[2].passed

\* C20: the agent selects a hand-off target only when its final response text
\* (the follow-up text after a tool) holds "transfer" or "handoff" in any letter
\* case; the target is then the first agent, in the order the current agent's
\* hand-offs were registered, whose name occurs in the text in any letter case,
\* and exactly one handoff event names source and target. Without a trigger
\* word, or without the name of a permitted target, there is no hand-off and no
\* handoff event.
C20_HandoffDetection ==
    last.outcome = "processed" =>
        LET low == Lower(LastResponseText)
            trigger == Contains(low, "transfer") \/ Contains(low, "handoff")
            permitted == IF last.agent = "Triage Agent"
                         THEN <<"Seat Booking Agent", "Flight Status Agent",
                                "Cancellation Agent", "FAQ Agent">>
                         ELSE <<"Triage Agent">>
            named(i) == Contains(low, Lower(permitted[i]))
            handoffs == LastEventsOfType("handoff")
        IN IF trigger /\ \E i \in 1..Len(permitted) : named(i)
           THEN \E i \in 1..Len(permitted) :
                   /\ named(i)
                   /\ \A j \in 1..(i - 1) : ~named(j)
                   /\ last.handoff_to = permitted[i]
                   /\ handoffs =
                         <<[type |-> "handoff", agent |-> last.agent,
                            content |-> last.agent \o " -> " \o permitted[i],
                            metadata |-> [source_agent |-> last.agent,
                                          target_agent |-> permitted[i]]]>>
           ELSE /\ last.handoff_to = None
                /\ handoffs = <<>>

\* The triage agent's response names the FAQ agent before the cancellation
\* agent: the cancellation agent, registered earlier, is selected.
C20_Witness ==
    /\ last.outcome = "processed"
    /\ last.agent = "Triage Agent"
    /\ LastResponseText = "Transfer to FAQ Agent or Cancellation Agent"
    /\ last.handoff_to = "Cancellation Agent"
    /\ Len(LastEventsOfType("handoff")) = 1
    /\ LastState.current_agent = "Cancellation Agent"

\* The first completion of the last turn asks, with the tool marker, for a tool
\* that is not among the tools registered on the agent that answered.
LastAsksUnregisteredTool ==
    /\ last.outcome = "processed"
    /\ LET text == last.completions[1].text
           tool_name == SplitFirst(Strip(SubSeq(text, 6, Len(text))), "(")
           registered ==
               CASE last.agent = "Seat Booking Agent" -> {"update_seat", "display_seat_map"}
                 [] last.agent = "Flight Status Agent" -> {"flight_status_tool"}
                 [] last.agent = "Cancellation Agent" -> {"cancel_flight"}
                 [] last.agent = "FAQ Agent" -> {"faq_lookup_tool"}
                 [] OTHER -> {}
       IN StartsWith(text, "TOOL:") /\ tool_name \notin registered

\* C21 as stated: a tool request that names no tool of the current agent falls
\* through to the generic tool result: the turn emits a tool_call event and a
\* tool_output event carrying "Tool executed successfully" and makes a second
\* generation call.
C21_UnregisteredToolGenericResult ==
    LastAsksUnregisteredTool =>
        /\ Len(LastEventsOfType("tool_call")) = 1
        /\ Len(LastEventsOfType("tool_output")) = 1
        /\ LastEventsOfType("tool_output")[1].content = "Tool executed successfully"
        /\ Len(last.completions) = 2

\* C21 as amended: a tool request that names no tool of the current agent skips
\* the tool phase without signalling an error: no tool_call and no tool_output
\* event, no second generation call, no tool touches the context, and the raw
\* first completion, marker included, is the response text that is answered
\* and stored.
C21_UnregisteredToolSkipsToolPhase ==
    LastAsksUnregisteredTool =>
        /\ last.response.status = 200
        /\ LastEventsOfType("tool_call") = <<>>
        /\ LastEventsOfType("tool_output") = <<>>
        /\ Len(last.completions) = 1
        /\ Len(last.calls) = 1
        /\ last.tool_context = last.old_context
        /\ last.response.messages =
              <<[content |-> last.completions[1].text, agent |-> last.agent]>>
        /\ LastState.conversation_history =
              last.before.conversation_history \o
                 <<[role |-> "user", content |-> last.request.message],
                   [role |-> "assistant", content |-> last.completions[1].text]>>

\* The cancellation agent is asked for update_seat, a tool of another agent; the
\* raw text is its answer, and the hand-off scan reads it.
C21_Witness ==
    /\ last.outcome = "processed"
    /\ last.agent = "Cancellation Agent"
    /\ last.completions = <<Returns("TOOL:update_seat(transfer to triage agent)")>>
    /\ last.handoff_to = "Triage Agent"
    /\ Len(LastEventsOfType("handoff")) = 1
    /\ last.response.messages[1].content = "TOOL:update_seat(transfer to triage agent)"

\* C22: the first generation call of a turn the agent answers is sent one system
\* instruction, then the last min(10, n) entries, oldest first, of the history
\* handed to the agent, which already ends with the turn's user message, then
\* that user message once more; the entries before the window are left out of
\* the prompt and stay in the stored history.
C22_PromptWindow ==
    last.outcome = "processed" =>
        LET user == [role |-> "user", content |-> last.request.message]
            handed == last.before.conversation_history \o <<user>>
            n == Len(handed)
            k == IF n < 10 THEN n ELSE 10
            prompt == last.calls[1]
        IN /\ Len(prompt) = k + 2
           /\ prompt[1].role = "system"
           /\ \A i \in 1..k : prompt[1 + i] = handed[n - k + i]
           /\ prompt[k + 1] = user
           /\ prompt[k + 2] = user
           /\ Len(LastState.conversation_history) = n + 1
           /\ SubSeq(LastState.conversation_history, 1, n) = handed

\* A turn on a history of ten entries: eleven are handed to the agent, the
\* oldest is left out of the prompt and is still the first stored entry.
C22_Witness ==
    /\ last.outcome = "processed"
    /\ Len(last.before.conversation_history) = 10
    /\ Len(last.calls[1]) = 12
    /\ last.calls[1][2].role = "assistant"
    /\ Len(LastState.conversation_history) = 12
    /\ LastState.conversation_history[1] = last.before.conversation_history[1]
    /\ LastState.conversation_history[1].role = "user"

\* C23: every stored history has even length and alternates user, assistant,
\* user, assistant, ... from its first entry on: no user entry is stored without
\* the assistant entry that answers it, also after turns that failed.
C23_HistoryAlternates ==
    \A c \in DOMAIN conversations :
        LET history == conversations[c].conversation_history
        IN /\ Len(history) % 2 = 0
           /\ \A i \in 1..Len(history) :
                 history[i].role = IF i % 2 = 1 THEN "user" ELSE "assistant"

\* The stored states of the agents that work on a booking have a confirmation
\* and a flight number, and a stored seat comes with a confirmation number.
BookingContextSet ==
    \A c \in DOMAIN conversations :
        LET state == conversations[c]
        IN /\ state.current_agent \in {"Seat Booking Agent", "Cancellation Agent"} =>
                 /\ state.context.confirmation_number # None
                 /\ state.context.flight_number # None
           /\ state.context.seat_number # None =>
                 state.context.confirmation_number # None

\* update_seat and cancel_flight ran on the numbers of the context.
FallbackNumbersUnused ==
    (last.outcome = "processed" /\ LastEventsOfType("tool_call") # <<>>) =>
        LET tool == LastEventsOfType("tool_call")[1].content
            output == LastEventsOfType("tool_output")[1].content
        IN /\ tool = "update_seat" =>
                 /\ last.old_context.confirmation_number # None
                 /\ LastState.context.confirmation_number # "ABC123"
                 /\ output = "Updated seat to " \o LastState.context.seat_number
                                \o " for confirmation number "
                                \o last.old_context.confirmation_number
           /\ tool = "cancel_flight" =>
                 /\ last.old_context.flight_number # None
                 /\ output = "Flight " \o last.old_context.flight_number
                                \o " successfully cancelled"
                 /\ output # "Flight FLT-123 successfully cancelled"

\* C24: in every stored state an active seat booking or cancellation agent has
\* both the confirmation number and the flight number set, and a set seat
\* number comes with a set confirmation number; so update_seat never falls back
\* to the confirmation "ABC123" and cancel_flight never to the flight "FLT-123".
C24_BookingContextComplete ==
    /\ BookingContextSet
    /\ FallbackNumbersUnused

\* The cancellation agent cancelled the flight its hand-off setup had drawn.
C24_Witness ==
    /\ last.outcome = "processed"
    /\ last.agent = "Cancellation Agent"
    /\ Len(LastEventsOfType("tool_output")) = 1
    /\ last.old_context.flight_number \in FlightNumbers
    /\ LastEventsOfType("tool_output")[1].content =
          "Flight " \o last.old_context.flight_number \o " successfully cancelled"
    /\ LastState.current_agent = "Cancellation Agent"

\* The place of an event type in the order of a turn's events.
EventRank(type) ==
    CASE type = "tool_call" -> 1
      [] type = "tool_output" -> 2
      [] type = "handoff" -> 3
      [] type = "context_update" -> 4
      [] OTHER -> 0

\* C25: in the events of a turn's response each of the types tool_call,
\* tool_output, handoff and context_update occurs at most once and they come in
\* that order; a tool_output event comes only after a tool_call event of the
\* same turn, and a context_update event, when there is one, is the last.
C25_EventOrder ==
    TurnDone =>
        LET events == last.response.events
        IN /\ \A i \in 1..Len(events) : EventRank(events[i].type) > 0
           /\ \A i \in 1..Len(events) : \A j \in (i + 1)..Len(events) :
                 EventRank(events[i].type) < EventRank(events[j].type)
           /\ \A j \in 1..Len(events) :
                 events[j].type = "tool_output" =>
                     \E i \in 1..(j - 1) : events[i].type = "tool_call"
           /\ \A i \in 1..Len(events) :
                 events[i].type = "context_update" => i = Len(events)

\* A turn with all four events: update_seat ran, the follow-up text handed the
\* conversation back to triage, and the seat had changed.
C25_Witness ==
    /\ last.outcome = "processed"
    /\ last.agent = "Seat Booking Agent"
    /\ Len(last.response.events) = 4
    /\ last.response.events[1].type = "tool_call"
    /\ last.response.events[2].type = "tool_output"
    /\ last.response.events[3].type = "handoff"
    /\ last.response.events[4].type = "context_update"

\* A step leaves every stored conversation but the one its turn worked on.
OtherConversationsUntouched ==
    \A b \in DOMAIN conversations :
        b # last'.conversation_id =>
            /\ b \in DOMAIN conversations'
            /\ conversations'[b] = conversations[b]

\* C26: a turn on one conversation id, whether it is answered, refused,
\* short-circuited or failed, leaves the stored history, context and active
\* agent of every other conversation id as they were, however the turns on the
\* conversations are interleaved.
C26_OtherConversationsUnchanged == [][OtherConversationsUntouched]_vars

\* Two stored conversations that both had turns, the last turn on one of them
\* while a request for the other is in flight.
C26_Witness ==
    /\ last.outcome = "processed"
    /\ Cardinality(DOMAIN conversations) = 2
    /\ \A c \in DOMAIN conversations : Len(conversations[c].conversation_history) = 2
    /\ \E r \in inflight :
          /\ r.conversation_id \in DOMAIN conversations
          /\ r.conversation_id # last.conversation_id

====
